---------------------------- MODULE Spec2Model ----------------------------
(***************************************************************************)
(* A model of dts_visualizer: the tolerant DTS parser (parser.py), the     *)
(* subtree exporter (exporter.py), the binding schema index (bindings.py)  *)
(* and the reference classifier of the main window (ui_mainwindow.py).     *)
(*                                                                         *)
(* Python strings are TLA+ strings; Len, \o and SubSeq act on them as on   *)
(* sequences of characters.  A node tree is an arena: a sequence of node   *)
(* records whose children and parent fields hold indices (0 is None).      *)
(* A Python dict is a sequence of [k, v] records in insertion order.       *)
(***************************************************************************)
EXTENDS Integers, Sequences, FiniteSets, TLC

VARIABLES
    pc,              \* position of the modelled run
    text,            \* the source text handed to DTSParser.parse
    tokens,          \* parse: the logical statements of _tokenize
    i,               \* parse: index of the next statement (1-based)
    nodes,           \* the node arena; nodes[1] is the root
    stack,           \* parse: the stack of open nodes (indices)
    exported,        \* the last export_dtsi call and what it returned
    reexported,      \* export_dtsi of the re-parsed export text
    bindings_index,  \* MainWindow.bindings_index
    query,           \* the last classifier or users_of call and its result
    indices,         \* MainWindow.all_nodes, phandle_map and symbols_map
    edits            \* the number of edits of the tree since it was loaded

vars == <<pc, text, tokens, i, nodes, stack, exported, reexported,
          bindings_index, query, indices, edits>>

parseVars == <<text, tokens, i, nodes, stack>>
exportVars == <<exported, reexported>>
bindVars == <<bindings_index, query>>
indexVars == <<indices, edits>>

---------------------------------------------------------------------------
(* Bounds of the model.                                                    *)

MaxLines == 3
MaxBlocks == 3
MaxFiles == 2
MaxEdits == 2
MaxStatements == 3
MaxNest == 6

---------------------------------------------------------------------------
(* Strings.                                                                *)

\* None, and a value that may be None: get(key) of a dict of strings, an int or None
None == [tag |-> "none"]
Some(v) == [tag |-> "some", val |-> v]

\* the slice s[m-1:n] of a string: indices beyond its ends are clamped
Slice(s, m, n) ==
    IF m > n \/ m > Len(s) \/ n < 1
    THEN ""
    ELSE SubSeq(s, IF m < 1 THEN 1 ELSE m, IF n > Len(s) THEN Len(s) ELSE n)

Ch(s, k) == Slice(s, k, k)

Lower == {"a","b","c","d","e","f","g","h","i","j","k","l","m",
          "n","o","p","q","r","s","t","u","v","w","x","y","z"}
Upper == {"A","B","C","D","E","F","G","H","I","J","K","L","M",
          "N","O","P","Q","R","S","T","U","V","W","X","Y","Z"}
Digit == {"0","1","2","3","4","5","6","7","8","9"}

\* \s of the regular expressions and the characters str.strip() removes
Ws == {" ", "\t", "\n", "\r"}

\* the line boundaries of str.splitlines()
LineBreak == {"\n", "\r"}

StartsWith(s, pre) == Len(s) >= Len(pre) /\ Slice(s, 1, Len(pre)) = pre

EndsWith(s, suf) ==
    Len(s) >= Len(suf) /\ Slice(s, Len(s) - Len(suf) + 1, Len(s)) = suf

Contains(s, sub) ==
    \E k \in 1..(Len(s) - Len(sub) + 1) : Slice(s, k, k + Len(sub) - 1) = sub

\* the first index >= from at which sub occurs in s, or 0
Find(s, sub, from) ==
    LET at == {k \in from..(Len(s) - Len(sub) + 1) : Slice(s, k, k + Len(sub) - 1) = sub}
    IN  IF at = {} THEN 0 ELSE CHOOSE k \in at : \A j \in at : k <= j

\* the index after the longest run of characters of C that starts at from, less one
SpanEnd(s, from, C) ==
    IF \A j \in from..Len(s) : Ch(s, j) \in C
    THEN IF from > Len(s) THEN from - 1 ELSE Len(s)
    ELSE (CHOOSE e \in from..Len(s) :
              Ch(s, e) \notin C /\ \A j \in from..(e - 1) : Ch(s, j) \in C) - 1

\* str.strip(chars), str.lstrip(chars), str.rstrip(chars)
LStripChars(s, C) == Slice(s, SpanEnd(s, 1, C) + 1, Len(s))

RStripChars(s, C) ==
    IF \A j \in 1..Len(s) : Ch(s, j) \in C
    THEN ""
    ELSE Slice(s, 1, CHOOSE e \in 1..Len(s) :
                          Ch(s, e) \notin C /\ \A j \in (e + 1)..Len(s) : Ch(s, j) \in C)

StripChars(s, C) == RStripChars(LStripChars(s, C), C)

Strip(s) == StripChars(s, Ws)

RECURSIVE Join(_, _)
Join(sep, strs) ==
    IF strs = <<>> THEN ""
    ELSE IF Len(strs) = 1 THEN strs[1]
    ELSE strs[1] \o sep \o Join(sep, Tail(strs))

\* str.splitlines(): the lines of s, without their line breaks
RECURSIVE SplitLines(_)
SplitLines(s) ==
    IF s = "" THEN <<>>
    ELSE LET e == SpanEnd(s, 1, {c \in {Ch(s, k) : k \in 1..Len(s)} : c \notin LineBreak})
             skip == IF Slice(s, e + 1, e + 2) = "\r\n" THEN 2 ELSE 1
         IN  <<Slice(s, 1, e)>> \o SplitLines(Slice(s, e + skip + 1, Len(s)))

\* str.split(): the maximal runs of non-blank characters
RECURSIVE SplitWs(_)
SplitWs(s) ==
    LET t == LStripChars(s, Ws)
    IN  IF t = "" THEN <<>>
        ELSE LET e == SpanEnd(t, 1, {c \in {Ch(t, k) : k \in 1..Len(t)} : c \notin Ws})
             IN  <<Slice(t, 1, e)>> \o SplitWs(Slice(t, e + 1, Len(t)))

---------------------------------------------------------------------------
(* DTSParser._tokenize                                                     *)

\* re.sub(r"/\*.*?\*/", " ", text, flags=re.S): each "/*" up to the first
\* "*/" that follows it becomes a blank; a "/*" that nothing closes stays
RECURSIVE StripBlockComments(_)
StripBlockComments(s) ==
    LET a == Find(s, "/*", 1)
        e == Find(s, "*/", a + 2)
    IN  IF a = 0 \/ e = 0 THEN s
        ELSE Slice(s, 1, a - 1) \o " " \o StripBlockComments(Slice(s, e + 2, Len(s)))

\* re.sub(r"//.*", " ", text): "." matches every character but "\n"
RECURSIVE StripLineComments(_)
StripLineComments(s) ==
    LET a == Find(s, "//", 1)
        e == Find(s, "\n", a + 2)
    IN  IF a = 0 THEN s
        ELSE IF e = 0 THEN Slice(s, 1, a - 1) \o " "
        ELSE Slice(s, 1, a - 1) \o " " \o StripLineComments(Slice(s, e, Len(s)))

\* the flush test of the loop of _tokenize
FlushAfter(joined) ==
    EndsWith(joined, "{") \/ joined = "};" \/ EndsWith(joined, ";")

RECURSIVE TokenizeLines(_, _, _)
TokenizeLines(raws, buf, lines) ==
    IF raws = <<>>
    THEN IF buf # <<>> THEN Append(lines, Join(" ", buf)) ELSE lines
    ELSE LET line == Strip(Head(raws))
         IN  IF line = ""
             THEN TokenizeLines(Tail(raws), buf, lines)
             ELSE LET joined == Join(" ", Append(buf, line))
                  IN  IF FlushAfter(joined)
                      THEN TokenizeLines(Tail(raws), <<>>, Append(lines, joined))
                      ELSE TokenizeLines(Tail(raws), Append(buf, line), lines)

_tokenize(t) ==
    TokenizeLines(SplitLines(StripLineComments(StripBlockComments(t))), <<>>, <<>>)

---------------------------------------------------------------------------
(* The tree model (model.py) and DTSParser.parse                           *)

DTNode(name, path) ==
    [name |-> name, path |-> path, properties |-> <<>>, children |-> <<>>, parent |-> 0]

\* dict.get(key): the value, or None
HasKey(props, key) == \E k \in 1..Len(props) : props[k].k = key

DictGet(props, key) ==
    IF HasKey(props, key)
    THEN Some(props[CHOOSE k \in 1..Len(props) : props[k].k = key].v)
    ELSE None

\* dict[key] = value: a known key keeps its position
DictSet(props, key, value) ==
    IF HasKey(props, key)
    THEN [k \in 1..Len(props) |->
             IF props[k].k = key THEN [k |-> key, v |-> value] ELSE props[k]]
    ELSE Append(props, [k |-> key, v |-> value])

\* [A-Za-z0-9_,.@-] of node_start_re and node_with_name_re
NameChar == Lower \cup Upper \cup Digit \cup {"_", ",", ".", "@", "-"}

\* [A-Za-z0-9_,.+@/#-] of property_re
KeyChar == Lower \cup Upper \cup Digit \cup {"_", ",", ".", "+", "@", "/", "#", "-"}

\* node_with_name_re.match(line): <<matched, label, name>>
node_with_name_re(line) ==
    LET a  == SpanEnd(line, 1, Ws) + 1
        e1 == SpanEnd(line, a, NameChar)
        q  == SpanEnd(line, e1 + 1, Ws) + 1
        r  == SpanEnd(line, q + 1, Ws) + 1
        e2 == SpanEnd(line, r, NameChar)
        b  == SpanEnd(line, e2 + 1, Ws) + 1
        z  == SpanEnd(line, b + 1, Ws)
    IN  IF e1 >= a /\ Ch(line, q) = ":" /\ Ch(line, b) = "{" /\ z = Len(line)
        THEN <<TRUE, Slice(line, a, e1), Slice(line, r, e2)>>
        ELSE <<FALSE, "", "">>

\* node_start_re.match(line): <<matched, name>>
node_start_re(line) ==
    LET a  == SpanEnd(line, 1, Ws) + 1
        e1 == SpanEnd(line, a, NameChar)
        b  == SpanEnd(line, e1 + 1, Ws) + 1
        z  == SpanEnd(line, b + 1, Ws)
    IN  IF Ch(line, b) = "{" /\ z = Len(line)
        THEN <<TRUE, Slice(line, a, e1)>>
        ELSE <<FALSE, "">>

\* property_re.match(line): <<matched, key, value>>.  A statement holds no
\* line break (splitlines), so "." matches each of its characters and the
\* lazy (.*?) ends at the last ";" of the line.
property_re(line) ==
    LET a  == SpanEnd(line, 1, Ws) + 1
        e1 == SpanEnd(line, a, KeyChar)
        q  == SpanEnd(line, e1 + 1, Ws) + 1
        n  == IF EndsWith(RStripChars(line, Ws), ";")
              THEN Len(RStripChars(line, Ws)) ELSE 0
    IN  IF e1 >= a /\ Ch(line, q) = "=" /\ n > q
        THEN <<TRUE, Slice(line, a, e1), LStripChars(Slice(line, q + 1, n - 1), Ws)>>
        ELSE <<FALSE, "", "">>

\* the name a node opener gives its node (parser.py lines 37-46)
OpenerName(line) ==
    LET m_label == node_with_name_re(line)
        m_name  == node_start_re(line)
    IN  IF m_label[1]
        THEN IF m_label[3] # "" THEN m_label[3] ELSE m_label[2]
        ELSE IF m_name[1]
             THEN IF m_name[2] # "" THEN m_name[2] ELSE "node"
             ELSE "node"

\* the path of a new child (parser.py line 48)
ChildPath(parent_path, name) ==
    IF parent_path # "/"
    THEN RStripChars(parent_path, {"/"}) \o "/" \o name
    ELSE "/" \o name

\* DTNode.add_child, on the arena: the child gets the next index
add_child(ns, parent, child) ==
    LET id == Len(ns) + 1
    IN  Append([ns EXCEPT ![parent].children = Append(@, id)],
               [child EXCEPT !.parent = parent])

\* the value a property statement stores (parser.py lines 64-66)
StoredValue(raw) ==
    LET value == Strip(raw)
    IN  IF StartsWith(value, "\"") /\ EndsWith(value, "\"")
        THEN StripChars(value, {"\""})
        ELSE value

CloseNodeUnguarded(st) == [st EXCEPT !.stack = SubSeq(@, 1, Len(@) - 1)]

\* the closer "};" (parser.py lines 54-57): pop, but never the root
CloseNode(st) ==
    IF Len(st.stack) > 1
    THEN [st EXCEPT !.stack = SubSeq(@, 1, Len(@) - 1)]
    ELSE st

\* one iteration of the loop of parse on statement tok; st = [nodes, stack]
ParseStmt(st, tok) ==
    LET line == Strip(tok)
        top  == st.stack[Len(st.stack)]
        m_prop == property_re(line)
    IN  IF line = "" THEN st
        ELSE IF EndsWith(line, "{")
        THEN IF StartsWith(Strip(line), "/")
             THEN st
             ELSE LET name == OpenerName(line)
                      path == ChildPath(st.nodes[top].path, name)
                  IN  [nodes |-> add_child(st.nodes, top, DTNode(name, path)),
                       stack |-> Append(st.stack, Len(st.nodes) + 1)]
        ELSE IF line = "};"
        THEN CloseNode(st)
        ELSE IF m_prop[1]
        THEN [st EXCEPT !.nodes[top].properties =
                            DictSet(@, m_prop[2], StoredValue(m_prop[3]))]
        ELSE st

RootOnly == <<DTNode("/", "/")>>

RECURSIVE ParseFrom(_, _)
ParseFrom(st, toks) ==
    IF toks = <<>> THEN st ELSE ParseFrom(ParseStmt(st, Head(toks)), Tail(toks))

\* DTSParser.parse(text): the arena of the tree it returns
parse(t) == ParseFrom([nodes |-> RootOnly, stack |-> <<1>>], _tokenize(t)).nodes

---------------------------------------------------------------------------
(* Integer literals: int(t, 0), and the formats "{:x}" and "{}" of ints.   *)

HexLower == "0123456789abcdef"
HexUpper == "0123456789ABCDEF"

DigitsOf(base) ==
    {Ch(HexLower, k) : k \in 1..base} \cup {Ch(HexUpper, k) : k \in 1..base}

DigitValue(c) ==
    CHOOSE v \in 0..15 : Ch(HexLower, v + 1) = c \/ Ch(HexUpper, v + 1) = c

\* digits, with single underscores between them only
DigitsOk(d, base) ==
    /\ d # ""
    /\ \A k \in 1..Len(d) : Ch(d, k) \in DigitsOf(base) \cup {"_"}
    /\ Ch(d, 1) # "_"
    /\ Ch(d, Len(d)) # "_"
    /\ ~Contains(d, "__")

RECURSIVE DigitsValue(_, _, _)
DigitsValue(d, base, acc) ==
    IF d = "" THEN acc
    ELSE IF Ch(d, 1) = "_" THEN DigitsValue(Slice(d, 2, Len(d)), base, acc)
    ELSE DigitsValue(Slice(d, 2, Len(d)), base, acc * base + DigitValue(Ch(d, 1)))

\* int(t, 0): Some(value), or None where Python raises ValueError.  A sign, then
\* 0x / 0o / 0b and digits of that base, or decimal digits; a decimal literal
\* with a leading zero is accepted only when its value is zero.
ParseInt(t) ==
    LET neg  == StartsWith(t, "-")
        body == IF Ch(t, 1) \in {"+", "-"} THEN Slice(t, 2, Len(t)) ELSE t
        base == IF Ch(body, 1) # "0" THEN 10
                ELSE IF Ch(body, 2) \in {"x", "X"} THEN 16
                ELSE IF Ch(body, 2) \in {"o", "O"} THEN 8
                ELSE IF Ch(body, 2) \in {"b", "B"} THEN 2
                ELSE 10
        afterPrefix == Slice(body, 3, Len(body))
        digits == IF base = 10 THEN body
                  ELSE IF Ch(afterPrefix, 1) = "_"
                       THEN Slice(afterPrefix, 2, Len(afterPrefix))
                       ELSE afterPrefix
        v == DigitsValue(digits, base, 0)
    IN  IF DigitsOk(digits, base) /\ ~(base = 10 /\ Ch(body, 1) = "0" /\ v # 0)
        THEN Some(IF neg THEN 0 - v ELSE v)
        ELSE None

RECURSIVE ToBase(_, _)
ToBase(n, base) ==
    IF n < base THEN Ch(HexLower, n + 1)
    ELSE ToBase(n \div base, base) \o Ch(HexLower, (n % base) + 1)

\* f"{n:x}" and f"{n}"
FormatHex(n) == IF n < 0 THEN "-" \o ToBase(0 - n, 16) ELSE ToBase(n, 16)
FormatDec(n) == IF n < 0 THEN "-" \o ToBase(0 - n, 10) ELSE ToBase(n, 10)

---------------------------------------------------------------------------
(* exporter.py                                                             *)

IndexOf(s, c) == Find(s, c, 1)

\* re.findall(r"<([^>]*)>", s): the contents of the cell groups of s
RECURSIVE CellGroups(_)
CellGroups(s) ==
    IF ~Contains(s, "<") THEN <<>>
    ELSE LET lt   == IndexOf(s, "<")
             rest == Slice(s, lt + 1, Len(s))
         IN  IF ~Contains(rest, ">") THEN <<>>
             ELSE LET gt == IndexOf(rest, ">")
                  IN  <<Slice(rest, 1, gt - 1)>> \o CellGroups(Slice(rest, gt + 1, Len(rest)))

RECURSIVE Flatten(_)
Flatten(seqs) == IF seqs = <<>> THEN <<>> ELSE Head(seqs) \o Flatten(Tail(seqs))

\* the tokens of the cell groups of s: grp.strip().split() of every group
CellTokens(s) ==
    LET gs == CellGroups(s)
    IN  Flatten([k \in 1..Len(gs) |-> SplitWs(Strip(gs[k]))])

RECURSIVE IntsOf(_)
IntsOf(toks) ==
    IF toks = <<>> THEN <<>>
    ELSE LET n == ParseInt(Head(toks))
         IN  (IF n.tag = "some" THEN <<n.val>> ELSE <<>>) \o IntsOf(Tail(toks))

\* _parse_cells(val): val is Some(string) or None
_parse_cells(val) ==
    IF val.tag = "none" THEN <<>>
    ELSE IF val.val = "" THEN <<>>
    ELSE IntsOf(CellTokens(val.val))

\* _parse_single_cell(val): Some(int) or None
_parse_single_cell(val) ==
    LET cells == _parse_cells(val)
    IN  IF cells # <<>> THEN Some(cells[1]) ELSE None

\* collect: the nodes below (and with) the listed ones, in pre-order
RECURSIVE CollectAll(_, _)
CollectAll(ns, ids) ==
    IF ids = <<>> THEN <<>>
    ELSE <<Head(ids)>> \o CollectAll(ns, ns[Head(ids)].children) \o CollectAll(ns, Tail(ids))

collect(ns, n) == CollectAll(ns, <<n>>)

SubtreeWholeTree(ns, root) == collect(ns, 1)

\* subtree_nodes of export_dtsi: the nodes whose phandles the export knows
subtree_nodes(ns, root) == collect(ns, root)

\* the phandle -> node dict of export_dtsi, built over the listed nodes
RECURSIVE PhToNode(_, _, _)
PhToNode(ns, ids, acc) ==
    IF ids = <<>> THEN acc
    ELSE LET ph == _parse_single_cell(DictGet(ns[Head(ids)].properties, "phandle"))
         IN  PhToNode(ns, Tail(ids),
                      IF ph.tag = "some" THEN DictSet(acc, ph.val, Head(ids)) ELSE acc)

\* re.sub(r"[^A-Za-z0-9_]", "_", s)
RECURSIVE SubNonLabelChars(_)
SubNonLabelChars(s) ==
    IF s = "" THEN ""
    ELSE (IF Ch(s, 1) \in Lower \cup Upper \cup Digit \cup {"_"} THEN Ch(s, 1) ELSE "_")
         \o SubNonLabelChars(Slice(s, 2, Len(s)))

_sanitize_label(name) ==
    LET first == IF Contains(name, "@") THEN Slice(name, 1, IndexOf(name, "@") - 1) ELSE name
        s     == SubNonLabelChars(first)
    IN  IF s = "" THEN "_n"
        ELSE IF Ch(s, 1) \notin Lower \cup Upper \cup {"_"} THEN "_" \o s
        ELSE s

\* the candidate label of the k-th round of the uniqueness loop
Candidate(base, ph, k) ==
    IF k = 1 THEN base \o "_" \o FormatHex(ph)
    ELSE base \o "_" \o FormatHex(ph) \o "_" \o FormatDec(k)

RECURSIVE UniqueLabel(_, _, _, _)
UniqueLabel(base, ph, used, k) ==
    IF Candidate(base, ph, k) \in used
    THEN UniqueLabel(base, ph, used, k + 1)
    ELSE Candidate(base, ph, k)

\* the labels dict (node -> label) of export_dtsi, in ph_to_node order
RECURSIVE AssignLabels(_, _, _)
AssignLabels(ns, items, acc) ==
    IF items = <<>> THEN acc
    ELSE LET ph   == Head(items).k
             n    == Head(items).v
             b    == _sanitize_label(ns[n].name)
             base == IF b = "" THEN "node" ELSE b
             used == {acc[k].v : k \in 1..Len(acc)}
         IN  AssignLabels(ns, Tail(items),
                          DictSet(acc, n, UniqueLabel(base, ph, used, 1)))

ReplTokenKeepAll(t, ph_to_node, labels) == t

\* one token of a cell group in repl_group (exporter.py lines 101-116)
ReplToken(t, ph_to_node, labels) ==
    LET num == ParseInt(t)
    IN  IF num.tag = "none" THEN t
        ELSE LET node == DictGet(ph_to_node, num.val)
             IN  IF node.tag = "none" THEN t
                 ELSE LET lbl == DictGet(labels, node.val)
                      IN  IF lbl.tag = "some" /\ lbl.val # ""
                          THEN "&" \o lbl.val
                          ELSE t

repl_group(content, ph_to_node, labels) ==
    LET toks == SplitWs(Strip(content))
    IN  "<" \o Join(" ", [k \in 1..Len(toks) |-> ReplToken(toks[k], ph_to_node, labels)]) \o ">"

\* re.sub(r"<([^>]*)>", repl_group, v)
RECURSIVE SubGroups(_, _, _)
SubGroups(s, ph_to_node, labels) ==
    IF ~Contains(s, "<") THEN s
    ELSE LET lt   == IndexOf(s, "<")
             rest == Slice(s, lt + 1, Len(s))
         IN  IF ~Contains(rest, ">") THEN s
             ELSE LET gt == IndexOf(rest, ">")
                  IN  Slice(s, 1, lt - 1)
                      \o repl_group(Slice(rest, 1, gt - 1), ph_to_node, labels)
                      \o SubGroups(Slice(rest, gt + 1, Len(rest)), ph_to_node, labels)

_replace_phandles_in_value(v, ph_to_node, labels) ==
    IF ~Contains(v, "<") THEN v ELSE SubGroups(v, ph_to_node, labels)

RECURSIVE _indent(_)
_indent(n) == IF n = 0 THEN "" ELSE "  " \o _indent(n - 1)

EmitsEveryProperty(k) == TRUE

\* the properties _write_node_export prints (exporter.py lines 69-70)
EmitsProperty(k) == k # "phandle"

\* MainWindow._prop_may_reference_phandle (ui_mainwindow.py lines 425-457): the
\* heuristic of the classifier, which export_dtsi does not ask
base_keys ==
    {"interrupt-parent", "clocks", "dmas", "pinctrl-0", "pinctrl-1", "pinctrl-2",
     "iommus", "assigned-clocks", "assigned-clock-parents", "resets", "gpios",
     "interrupts-extended", "phys", "power-domains", "memory-region",
     "thermal-sensors", "remote-endpoint", "sound-dai"}

_prop_may_reference_phandle(key) ==
    IF key = "phandle" \/ key = "linux,phandle" THEN FALSE
    ELSE \/ key \in base_keys
         \/ EndsWith(key, "-supply")
         \/ key \in {"phy-handle", "phy"}
         \/ EndsWith(key, "-gpios") \/ EndsWith(key, "-gpio")
         \/ EndsWith(key, "-phandle") \/ EndsWith(key, "-phandles")
         \/ StartsWith(key, "pinctrl-")

\* the lines of the properties when only the values of the properties the
\* heuristic accepts are rewritten
RECURSIVE PropLinesByClassifier(_, _, _, _)
PropLinesByClassifier(props, level, ph_to_node, labels) ==
    IF props = <<>> THEN <<>>
    ELSE (IF Head(props).k # "phandle"
          THEN <<_indent(level + 1) \o Head(props).k \o " = "
                 \o (IF _prop_may_reference_phandle(Head(props).k)
                     THEN _replace_phandles_in_value(Head(props).v, ph_to_node, labels)
                     ELSE Head(props).v) \o ";">>
          ELSE <<>>)
         \o PropLinesByClassifier(Tail(props), level, ph_to_node, labels)

RECURSIVE PropLines(_, _, _, _)
PropLines(props, level, ph_to_node, labels) ==
    IF props = <<>> THEN <<>>
    ELSE (IF EmitsProperty(Head(props).k)
          THEN <<_indent(level + 1) \o Head(props).k \o " = "
                 \o _replace_phandles_in_value(Head(props).v, ph_to_node, labels) \o ";">>
          ELSE <<>>)
         \o PropLines(Tail(props), level, ph_to_node, labels)

\* _write_node_export of each listed node in turn: the lines appended to out
RECURSIVE WriteNodes(_, _, _, _, _)
WriteNodes(ns, ids, level, labels, ph_to_node) ==
    IF ids = <<>> THEN <<>>
    ELSE LET node   == Head(ids)
             label  == DictGet(labels, node)
             prefix == IF label.tag = "some" /\ label.val # ""
                       THEN label.val \o ": " ELSE ""
         IN  <<_indent(level) \o prefix \o ns[node].name \o " {">>
             \o PropLines(ns[node].properties, level, ph_to_node, labels)
             \o WriteNodes(ns, ns[node].children, level + 1, labels, ph_to_node)
             \o <<_indent(level) \o "};">>
             \o WriteNodes(ns, Tail(ids), level, labels, ph_to_node)

_write_node_export(ns, node, level, labels, ph_to_node) ==
    WriteNodes(ns, <<node>>, level, labels, ph_to_node)

\* the text of export_dtsi once ph_to_node and labels are built (lines 48-51)
EmitText(ns, root, ph_to_node, labels) ==
    LET lines == <<"// Exported from path: " \o ns[root].path>>
                 \o _write_node_export(ns, root, 0, labels, ph_to_node)
    IN  [tag |-> "export", root |-> root, ph_to_node |-> ph_to_node,
         labels |-> labels, lines |-> lines, text |-> Join("\n", lines) \o "\n"]

\* export_dtsi(root) on arena ns: what it computes and the text it returns
export_dtsi(ns, root) ==
    CHOOSE r \in
        UNION {{EmitText(ns, root, ph_to_node, labels) :
                    labels \in {AssignLabels(ns, ph_to_node, <<>>)}} :
               ph_to_node \in {PhToNode(ns, subtree_nodes(ns, root), <<>>)}} : TRUE

---------------------------------------------------------------------------
(* ui_mainwindow.py: the indices MainWindow keeps of the loaded tree.      *)

\* MainWindow._parse_cells(val): val is Some(string) or None
MainWindow_parse_cells(val) ==
    IF val.tag = "none" THEN <<>>
    ELSE IF val.val = "" THEN <<>>
    ELSE IntsOf(CellTokens(val.val))

\* MainWindow._parse_single_cell(val): Some(int) or None
MainWindow_parse_single_cell(val) ==
    LET cells == MainWindow_parse_cells(val)
    IN  IF cells # <<>> THEN Some(cells[1]) ELSE None

\* all_nodes, phandle_map and symbols_map as MainWindow.__init__ leaves them
EmptyIndex == [all_nodes |-> <<>>, phandle_map |-> <<>>, symbols_map |-> <<>>]

\* the phandle -> node dict of _build_index over the listed nodes
RECURSIVE PhandleMap(_, _, _)
PhandleMap(ns, ids, acc) ==
    IF ids = <<>> THEN acc
    ELSE LET ph == MainWindow_parse_single_cell(DictGet(ns[Head(ids)].properties, "phandle"))
         IN  PhandleMap(ns, Tail(ids),
                        IF ph.tag = "some" THEN DictSet(acc, ph.val, Head(ids)) ELSE acc)

\* next((c for c in root.children if c.name == "__symbols__"), None)
SymbolsNode(ns) ==
    LET cs == SelectSeq(ns[1].children, LAMBDA c : ns[c].name = "__symbols__")
    IN  IF cs = <<>> THEN None ELSE Some(cs[1])

\* the label -> path dict of _build_index from the properties of __symbols__
RECURSIVE SymbolsMap(_, _)
SymbolsMap(props, acc) ==
    IF props = <<>> THEN acc
    ELSE LET p == StripChars(Strip(Head(props).v), {"\""})
         IN  SymbolsMap(Tail(props),
                        IF p # "" THEN DictSet(acc, Head(props).k, p) ELSE acc)

\* MainWindow._build_index on the tree ns: the three indices it leaves
_build_index(ns) ==
    CHOOSE r \in
        {[all_nodes |-> all_nodes,
          phandle_map |-> PhandleMap(ns, all_nodes, <<>>),
          symbols_map |-> IF SymbolsNode(ns).tag = "some"
                          THEN SymbolsMap(ns[SymbolsNode(ns).val].properties, <<>>)
                          ELSE <<>>] : all_nodes \in {collect(ns, 1)}} : TRUE

---------------------------------------------------------------------------
(* The parser as a state machine: _tokenize, then the loop of parse.       *)

SeqsUpTo(S, n) == UNION {[1..k -> S] : k \in 0..n}

\* physical source lines; a source text is up to MaxLines of them
PhysLines ==
    {"/ { a { }", "/ {", "a {", "lbl: b@1 {", "c", "{", "};", "}", ";",
     "k = <1>;", "s = \"x\";", "/dts-v1/;"}

Texts == {Join("\n", ls) : ls \in SeqsUpTo(PhysLines, MaxLines)}

InitCommon ==
    /\ tokens = <<>>
    /\ i = 1
    /\ nodes = RootOnly
    /\ stack = <<1>>
    /\ exported = None
    /\ reexported = None
    /\ bindings_index = None
    /\ query = None
    /\ indices = EmptyIndex
    /\ edits = 0

Init ==
    /\ pc = "start"
    /\ text \in Texts
    /\ InitCommon

\* parse, lines 20-24: tokenize, create the root, start the loop
Tokenize ==
    /\ pc = "start"
    /\ tokens' = _tokenize(text)
    /\ i' = 1
    /\ nodes' = RootOnly
    /\ stack' = <<1>>
    /\ pc' = "parse"
    /\ UNCHANGED <<text, exportVars, bindVars, indexVars>>

\* parse, lines 25-70: one iteration of the while loop
ParseStep ==
    /\ pc = "parse"
    /\ i <= Len(tokens)
    /\ LET st == ParseStmt([nodes |-> nodes, stack |-> stack], tokens[i])
       IN  nodes' = st.nodes /\ stack' = st.stack
    /\ i' = i + 1
    /\ UNCHANGED <<pc, text, tokens, exportVars, bindVars, indexVars>>

\* parse, line 71: the loop is over, the root is returned
ParseReturn ==
    /\ pc = "parse"
    /\ i > Len(tokens)
    /\ pc' = "done"
    /\ UNCHANGED <<parseVars, exportVars, bindVars, indexVars>>

Next == Tokenize \/ ParseStep \/ ParseReturn

Spec == Init /\ [][Next]_vars

---------------------------------------------------------------------------
(* Loading a source text and exporting a subtree of it.                    *)

\* blocks of source lines: node blocks, closed or left open for the next
\* block to nest in, and a closer; a source text is up to MaxBlocks of them
SourceBlocks ==
    {"provider: clk@0 {\n  phandle = <0x10>;\n};",
     "clk@0 {\n  phandle = <0x10>;",
     "consumer@1 {\n  clocks = <0x10 0>;\n};",
     "neg {\n  phandle = <-1>;\n  x = < -1  0x10 >, <16>;\n};",
     "1w {\n  phandle = <16>;\n  s = \"str\";\n};",
     "@0 {\n  phandle = <2>;\n  reg = <2 &clk_10 zz>;",
     "};",
     "s {\n  compatible = \"v,x\";\n  phandle = \"x\";\n  r = < 7  8 >;\n};"}

SourceTexts == {Join("\n", bs) : bs \in SeqsUpTo(SourceBlocks, MaxBlocks)}

InitExport ==
    /\ pc = "init"
    /\ text = ""
    /\ InitCommon

\* MainWindow.load_file (ui_mainwindow.py line 193): root_node = parse(text)
LoadFrom(texts) ==
    /\ pc = "init"
    /\ \E t \in texts :
          /\ text' = t
          /\ \E root_node \in {parse(t)} :
                /\ nodes' = root_node
                /\ indices' = _build_index(root_node)
    /\ edits' = 0
    /\ pc' = "loaded"
    /\ UNCHANGED <<tokens, i, stack, exportVars, bindVars>>

load_file == LoadFrom(SourceTexts)

\* the nodes of the tree: those reachable from the root
TreeNodes == {collect(nodes, 1)[k] : k \in 1..Len(collect(nodes, 1))}

\* MainWindow._export_dtsi (line 592): export_dtsi(node) of a node of the tree
ExportNode ==
    /\ pc = "loaded"
    /\ \E n \in TreeNodes : exported' = export_dtsi(nodes, n)
    /\ reexported' = None
    /\ pc' = "exported"
    /\ UNCHANGED <<parseVars, bindVars, indexVars>>

\* the node of parse(export_dtsi(n)) that stands for n: the root for the
\* root, else the node the first line of the export opens
Corresponding(ns, n) == IF n = 1 \/ Len(ns) < 2 THEN 1 ELSE 2

\* export_dtsi of the exported text parsed again
Reexport ==
    /\ pc = "exported"
    /\ \E again \in {parse(exported.text)} :
          reexported' = export_dtsi(again, Corresponding(again, exported.root))
    /\ pc' = "reexported"
    /\ UNCHANGED <<parseVars, exported, bindVars, indexVars>>

NextExport == load_file \/ ExportNode \/ Reexport

SpecExport == InitExport /\ [][NextExport]_vars

\* the children of node n of arena ns, as nodes
ChildNames(ns, n) == [k \in 1..Len(ns[n].children) |-> ns[ns[n].children[k]].name]

(* C1: parse never fails: every statement is processed, the tree returned  *)
(* has the root named "/" with path "/", the stack always holds the root   *)
(* at its bottom and only nodes of the tree above it, and a "};" seen      *)
(* while only the root is on the stack changes neither stack nor tree.     *)
C1_ParseNeverFails ==
    /\ pc \in {"parse", "done"} =>
          /\ Len(stack) >= 1
          /\ stack[1] = 1
          /\ \A k \in 1..Len(stack) : stack[k] \in 1..Len(nodes)
          /\ nodes[1].name = "/"
          /\ nodes[1].path = "/"
          /\ nodes[1].parent = 0
    /\ pc = "done" => i = Len(tokens) + 1
    /\ (pc = "parse" /\ i <= Len(tokens) /\ Strip(tokens[i]) = "};" /\ Len(stack) = 1) =>
          ParseStmt([nodes |-> nodes, stack |-> stack], tokens[i])
              = [nodes |-> nodes, stack |-> stack]

\* a run that met a "};" at the root, and a node opener, and has returned
C1_Witness ==
    /\ pc = "done"
    /\ Len(tokens) = 3
    /\ tokens[1] = "};"
    /\ tokens[2] = "a {"
    /\ tokens[3] = "};"
    /\ Len(nodes) = 2
    /\ stack = <<1>>

(* C2: parsing the one-line text "/ { a { }" returns a tree in which a     *)
(* node named "a" is a child of the root.                                  *)
C2_MalformedLineYieldsA ==
    (pc = "done" /\ text = "/ { a { }") =>
        \E k \in 1..Len(nodes[1].children) : nodes[nodes[1].children[k]].name = "a"

---------------------------------------------------------------------------
(* What an export is measured against: the tree it was made from.          *)

SeqToSet(s) == {s[k] : k \in 1..Len(s)}

\* the phandle of node m: the first cell of its `phandle` property
PhandleOf(ns, m) == _parse_single_cell(DictGet(ns[m].properties, "phandle"))

\* the phandles the nodes ms own
OwnedPhandles(ns, ms) ==
    {PhandleOf(ns, m).val : m \in {x \in ms : PhandleOf(ns, x).tag = "some"}}

NotPhandleKey(p) == p.k # "phandle"

\* the properties of the listed nodes other than `phandle`, node after node
RECURSIVE PropsOf(_, _)
PropsOf(ns, ids) ==
    IF ids = <<>> THEN <<>>
    ELSE SelectSeq(ns[Head(ids)].properties, NotPhandleKey) \o PropsOf(ns, Tail(ids))

\* a line of an export that prints a property: it ends the statement with
\* ";" and is not a closing "};"
IsPropertyLine(line) == EndsWith(line, ";") /\ Strip(line) # "};"

IsInt(t, S) == ParseInt(t).tag = "some" /\ ParseInt(t).val \in S

\* an export has just been made of the tree held
Exported == pc = "exported"

(* C3: in every export, every token inside a <...> group of an emitted     *)
(* property that parses to the phandle of a node inside the exported       *)
(* subtree is printed as "&" and that node's label; the printed groups     *)
(* hold no token that parses to such a phandle.                            *)
C3_NoInternalNumeralLeaks ==
    Exported =>
        \A inside \in {SeqToSet(collect(nodes, exported.root))} :
        \A owned \in {OwnedPhandles(nodes, inside)} :
        \A props \in {PropsOf(nodes, collect(nodes, exported.root))} :
        \A outs \in {SelectSeq(exported.lines, IsPropertyLine)} :
            /\ Len(outs) = Len(props)
            /\ \A j \in 1..Len(props) :
                 \A src \in {CellTokens(props[j].v)} :
                 \A dst \in {CellTokens(outs[j])} :
                    /\ Len(dst) = Len(src)
                    /\ \A t \in 1..Len(src) :
                         /\ IsInt(src[t], owned) =>
                               \E m \in inside :
                                  /\ PhandleOf(nodes, m) = ParseInt(src[t])
                                  /\ HasKey(exported.labels, m)
                                  /\ dst[t] = "&" \o DictGet(exported.labels, m).val
                         /\ ~IsInt(dst[t], owned)

\* an export in which a cell names a node of the exported subtree
C3_Witness ==
    /\ pc = "exported"
    /\ exported.root # 1
    /\ \E j \in 1..Len(PropsOf(nodes, collect(nodes, exported.root))) :
          \E t \in SeqToSet(CellTokens(PropsOf(nodes, collect(nodes, exported.root))[j].v)) :
             IsInt(t, OwnedPhandles(nodes, SeqToSet(collect(nodes, exported.root))))

(* C4: in every export, every cell token of an emitted property whose      *)
(* value is the phandle of a node outside the exported subtree, and of no  *)
(* node inside it, is printed as the same token.                           *)
C4_ExternalNumeralsPreserved ==
    Exported =>
        \A inside \in {SeqToSet(collect(nodes, exported.root))} :
        \A external \in {OwnedPhandles(nodes, TreeNodes \ inside)
                            \ OwnedPhandles(nodes, inside)} :
        \A props \in {PropsOf(nodes, collect(nodes, exported.root))} :
        \A outs \in {SelectSeq(exported.lines, IsPropertyLine)} :
            /\ Len(outs) = Len(props)
            /\ \A j \in 1..Len(props) :
                 \A src \in {CellTokens(props[j].v)} :
                 \A dst \in {CellTokens(outs[j])} :
                    /\ Len(dst) = Len(src)
                    /\ \A t \in 1..Len(src) :
                         IsInt(src[t], external) => dst[t] = src[t]

\* consumer@1 exported alone, the provider of phandle 0x10 being its sibling
C4_Witness ==
    /\ pc = "exported"
    /\ exported.root # 1
    /\ nodes[exported.root].name = "consumer@1"
    /\ nodes[exported.root].parent = 1
    /\ \E m \in SeqToSet(nodes[1].children) :
          m # exported.root /\ PhandleOf(nodes, m) = Some(16)
    /\ \E k \in 1..Len(exported.lines) : exported.lines[k] = "  clocks = <0x10 0>;"

\* [A-Za-z_][A-Za-z0-9_]*
ValidLabel(l) ==
    /\ l # ""
    /\ Ch(l, 1) \in Lower \cup Upper \cup {"_"}
    /\ \A k \in 1..Len(l) : Ch(l, k) \in Lower \cup Upper \cup Digit \cup {"_"}

(* C5: in every export, every label given to a node matches                *)
(* [A-Za-z_][A-Za-z0-9_]*, and no two nodes are given the same label.      *)
C5_LabelsValidAndUnique ==
    Exported =>
        \A a \in 1..Len(exported.labels) :
            /\ ValidLabel(exported.labels[a].v)
            /\ \A b \in 1..Len(exported.labels) :
                  a # b => exported.labels[a].v # exported.labels[b].v

(* C6: the export of a node, parsed again and exported again from the      *)
(* corresponding node, is the same text, byte for byte.                    *)
C6_ExportIdempotent ==
    pc = "reexported" => reexported.text = exported.text


\* the lines _write_node_export owes for the listed nodes at a level: the
\* opening of the node, its properties but `phandle`, its children, "};"
RECURSIVE ExpectedLines(_, _, _)
ExpectedLines(ns, ids, level) ==
    IF ids = <<>> THEN <<>>
    ELSE LET n     == ns[Head(ids)]
             props == SelectSeq(n.properties, NotPhandleKey)
         IN  <<[kind |-> "open", word |-> n.name, level |-> level]>>
             \o [k \in 1..Len(props) |->
                    [kind |-> "prop", word |-> props[k].k, level |-> level + 1]]
             \o ExpectedLines(ns, n.children, level + 1)
             \o <<[kind |-> "close", word |-> "", level |-> level]>>
             \o ExpectedLines(ns, Tail(ids), level)

\* line prints what e asks for, at e's indentation
LineIs(line, e) ==
    IF e.kind = "close" THEN line = _indent(e.level) \o "};"
    ELSE IF e.kind = "prop"
    THEN /\ StartsWith(line, _indent(e.level) \o e.word \o " = ")
         /\ EndsWith(line, ";")
    ELSE /\ Len(line) >= Len(_indent(e.level)) + Len(e.word) + 2
         /\ StartsWith(line, _indent(e.level))
         /\ EndsWith(line, e.word \o " {")
         /\ \E prefix \in {Slice(line, Len(_indent(e.level)) + 1,
                                 Len(line) - Len(e.word) - 2)} :
               \/ prefix = ""
               \/ /\ EndsWith(prefix, ": ")
                  /\ \A k \in 1..(Len(prefix) - 2) : Ch(prefix, k) \notin Ws

(* C7: after its first line, an export holds, for every node of the        *)
(* subtree in pre-order, the line opening the node, exactly one line per   *)
(* stored property in stored order except `phandle`, which no node         *)
(* prints, then the node's children in stored order, then "};"; the text   *)
(* is these lines, each ended by a line break.                             *)
C7_EmitsSubtreeInPreOrder ==
    Exported =>
        \A want \in {ExpectedLines(nodes, <<exported.root>>, 0)} :
        \A body \in {Tail(exported.lines)} :
            /\ Len(body) = Len(want)
            /\ \A k \in 1..Len(want) :
                  /\ LineIs(body[k], want[k])
                  /\ ~Contains(body[k], "\n")
                  /\ ~StartsWith(Strip(body[k]), "phandle =")
            /\ exported.text = Join("\n", exported.lines) \o "\n"

\* an export of a node that has a `phandle` among several properties, and
\* a child with properties of its own
C7_Witness ==
    /\ pc = "exported"
    /\ \E m \in SeqToSet(collect(nodes, exported.root)) :
          /\ HasKey(nodes[m].properties, "phandle")
          /\ Len(nodes[m].properties) >= 2
          /\ nodes[m].properties[1].k = "phandle"
          /\ \E c \in SeqToSet(nodes[m].children) : Len(nodes[c].properties) >= 2


---------------------------------------------------------------------------
(* bindings.py: the schema documents and the index built from them.        *)

\* what yaml.safe_load returns: a string, a number, a mapping (its items in
\* document order), a sequence, or null
YStr(s) == [type |-> "str", str |-> s]
YInt(n) == [type |-> "int", int |-> n]
YMap(items) == [type |-> "dict", items |-> items]
YSeq(items) == [type |-> "list", items |-> items]
YNull == [type |-> "null"]
\* a file yaml.safe_load raises on
YError == [type |-> "error"]

KV(key, value) == [k |-> key, v |-> value]

\* d.get(key) of a mapping d
YGet(d, key) == IF HasKey(d.items, key) THEN DictGet(d.items, key).val ELSE YNull

\* `not v`
Falsy(v) ==
    \/ v.type = "null"
    \/ v.type = "str" /\ v.str = ""
    \/ v.type = "int" /\ v.int = 0
    \/ v.type \in {"dict", "list"} /\ v.items = <<>>

\* list(dict.fromkeys(res)): res without its repetitions
RECURSIVE Dedup(_, _)
Dedup(res, acc) ==
    IF res = <<>> THEN acc
    ELSE Dedup(Tail(res), IF Head(res) \in SeqToSet(acc) THEN acc ELSE Append(acc, Head(res)))

\* [x for x in items if isinstance(x, str)]
RECURSIVE StrsOf(_)
StrsOf(items) ==
    IF items = <<>> THEN <<>>
    ELSE (IF Head(items).type = "str" THEN <<Head(items).str>> ELSE <<>>)
         \o StrsOf(Tail(items))

RECURSIVE _extract_compatibles(_)
_extract_compatibles(compatible_section) ==
    IF Falsy(compatible_section) \/ compatible_section.type # "dict" THEN <<>>
    ELSE LET const == YGet(compatible_section, "const")
             enum  == YGet(compatible_section, "enum")
             alts(key) ==
                 LET arr == YGet(compatible_section, key)
                 IN  IF arr.type = "list"
                     THEN Flatten([k \in 1..Len(arr.items) |->
                                      _extract_compatibles(arr.items[k])])
                     ELSE <<>>
         IN  Dedup((IF const.type = "str" THEN <<const.str>> ELSE <<>>)
                   \o (IF enum.type = "list" THEN StrsOf(enum.items) ELSE <<>>)
                   \o alts("oneOf") \o alts("anyOf") \o alts("allOf"), <<>>)

\* isinstance(ref, str) and '/phandle' in ref
RefersToPhandle(ref) == ref.type = "str" /\ Contains(ref.str, "/phandle")

RECURSIVE _schema_is_phandle(_)
_schema_is_phandle(schema) ==
    IF schema.type # "dict" THEN FALSE
    ELSE \/ RefersToPhandle(YGet(schema, "$ref"))
         \/ /\ YGet(schema, "items").type = "dict"
            /\ RefersToPhandle(YGet(YGet(schema, "items"), "$ref"))
         \/ \E key \in {"oneOf", "anyOf", "allOf"} :
               /\ YGet(schema, key).type = "list"
               /\ \E k \in 1..Len(YGet(schema, key).items) :
                     _schema_is_phandle(YGet(schema, key).items[k])

_extract_phandle_props(d) ==
    LET props == YGet(d, "properties")
        patt  == YGet(d, "patternProperties")
    IN  (IF props.type = "dict"
         THEN {props.items[k].k : k \in {j \in 1..Len(props.items) :
                                            _schema_is_phandle(props.items[j].v)}}
         ELSE {})
        \cup
        (IF /\ patt.type = "dict"
            /\ \E k \in 1..Len(patt.items) :
                  /\ _schema_is_phandle(patt.items[k].v)
                  /\ StartsWith(patt.items[k].k, "^pinctrl-")
         THEN {"pinctrl-"}
         ELSE {})

RECURSIVE UpdateAllOverwriting(_, _, _)
UpdateAllOverwriting(idx, compatibles, phandle_props) ==
    IF compatibles = <<>> THEN idx
    ELSE UpdateAllOverwriting(DictSet(idx, Head(compatibles), phandle_props),
                              Tail(compatibles), phandle_props)

\* s = idx.setdefault(comp, set()); s.update(phandle_props), comp after comp
RECURSIVE UpdateAll(_, _, _)
UpdateAll(idx, compatibles, phandle_props) ==
    IF compatibles = <<>> THEN idx
    ELSE LET comp == Head(compatibles)
             s    == IF HasKey(idx, comp) THEN DictGet(idx, comp).val ELSE {}
         IN  UpdateAll(DictSet(idx, comp, s \cup phandle_props),
                       Tail(compatibles), phandle_props)

\* the loop of load_bindings over the files os.walk lists
RECURSIVE LoadFiles(_, _)
LoadFiles(files, idx) ==
    IF files = <<>> THEN idx
    ELSE LET fn   == Head(files).fn
             data == Head(files).data
         IN  IF ~(EndsWith(fn, ".yaml") \/ EndsWith(fn, ".yml")) \/ data.type # "dict"
             THEN LoadFiles(Tail(files), idx)
             ELSE LET compatibles   == _extract_compatibles(YGet(data, "compatible"))
                      phandle_props == _extract_phandle_props(data)
                  IN  IF compatibles = <<>> \/ phandle_props = {}
                      THEN LoadFiles(Tail(files), idx)
                      ELSE LoadFiles(Tail(files),
                                     UpdateAll(idx, compatibles, phandle_props))

\* load_bindings(dir_path): compat_to_phandle_props of the index returned
load_bindings(files) == LoadFiles(files, <<>>)

\* BindingsIndex.may_reference_phandle on compat_to_phandle_props
may_reference_phandle(compat_to_phandle_props, node_compat, prop) ==
    IF node_compat = "" THEN FALSE
    ELSE LET props == DictGet(compat_to_phandle_props, node_compat)
         IN  IF props.tag = "none" THEN FALSE
             ELSE IF props.val = {} THEN FALSE
             ELSE IF prop \in props.val THEN TRUE
             ELSE /\ StartsWith(prop, "pinctrl-")
                  /\ \E p \in props.val : StartsWith(p, "pinctrl-")

---------------------------------------------------------------------------
(* ui_mainwindow.py: the classifier of properties that may hold phandles.  *)

ClassifyByHeuristicOnly(ns, index, node, key) == _prop_may_reference_phandle(key)

\* (node.properties.get("compatible") or "").strip().strip('"')
CompatOf(ns, node) ==
    LET c == DictGet(ns[node].properties, "compatible")
    IN  StripChars(Strip(IF c.tag = "some" THEN c.val ELSE ""), {"\""})

\* index is self.bindings_index: None, or the index load_bindings returned
_node_prop_may_reference_phandle(ns, index, node, key) ==
    IF /\ index.tag # "none"
       /\ CompatOf(ns, node) # ""
       /\ may_reference_phandle(index.compat_to_phandle_props, CompatOf(ns, node), key)
    THEN TRUE
    ELSE _prop_may_reference_phandle(key)

---------------------------------------------------------------------------
(* Loading a bindings directory and classifying properties of a tree.      *)

PhandleArrayRef == YStr("/schemas/types.yaml#/definitions/phandle-array")
PhandleRef == YStr("/schemas/types.yaml#/definitions/phandle")

\* the document of tests/test_bindings.py: `items` is a sequence
ExampleDoc ==
    YMap(<<KV("$id", YStr("example.yaml")),
           KV("title", YStr("Example Device")),
           KV("compatible", YMap(<<KV("const", YStr("vendor,example"))>>)),
           KV("properties",
              YMap(<<KV("clocks",
                        YMap(<<KV("items", YSeq(<<YMap(<<KV("$ref", PhandleArrayRef)>>)>>))>>))>>)),
           KV("additionalProperties", YStr("true"))>>)

\* the same device, `items` being a mapping, and `phandle` declared as one
MappingItemsDoc ==
    YMap(<<KV("compatible", YMap(<<KV("const", YStr("vendor,example"))>>)),
           KV("properties",
              YMap(<<KV("clocks", YMap(<<KV("items", YMap(<<KV("$ref", PhandleArrayRef)>>))>>)),
                     KV("phandle", YMap(<<KV("$ref", PhandleRef)>>))>>))>>)

EnumDoc ==
    YMap(<<KV("compatible", YMap(<<KV("enum", YSeq(<<YStr("vendor,x"), YInt(1), YStr("vendor,y")>>))>>)),
           KV("properties",
              YMap(<<KV("my-ref", YMap(<<KV("$ref", PhandleRef)>>)),
                     KV("reg", YMap(<<KV("maxItems", YInt(1))>>))>>)),
           KV("patternProperties",
              YMap(<<KV("^pinctrl-[0-9]+$", YMap(<<KV("items", YMap(<<KV("$ref", PhandleArrayRef)>>))>>))>>))>>)

OneOfDoc ==
    YMap(<<KV("compatible",
              YMap(<<KV("oneOf", YSeq(<<YMap(<<KV("const", YStr("vendor,x"))>>),
                                        YMap(<<KV("const", YStr(""))>>)>>))>>)),
           KV("properties",
              YMap(<<KV("foo", YMap(<<KV("oneOf", YSeq(<<YStr("x"), YMap(<<KV("$ref", PhandleRef)>>)>>))>>)),
                     KV("pinctrl-0", YMap(<<KV("$ref", PhandleArrayRef)>>))>>))>>)

\* the files a bindings directory may hold
SchemaFiles ==
    {[fn |-> "example.yaml", data |-> ExampleDoc],
     [fn |-> "mapping.yaml", data |-> MappingItemsDoc],
     [fn |-> "enum.yaml", data |-> EnumDoc],
     [fn |-> "oneof.yml", data |-> OneOfDoc],
     [fn |-> "broken.yaml", data |-> YError],
     [fn |-> "list.yaml", data |-> YSeq(<<YStr("vendor,x")>>)],
     [fn |-> "enum.txt", data |-> EnumDoc]}

Directories == SeqsUpTo(SchemaFiles, MaxFiles)

\* source texts of one device node with its `compatible` in several forms
DeviceTexts ==
    {"dev {\n  compatible = \"vendor,x\";\n};",
     "dev {\n  compatible = \"vendor,example\";\n};",
     "dev {\n  compatible = \"\";\n};",
     "dev {\n  reg = <1>;\n};",
     "dev {\n  compatible = \"other\";\n};",
     "dev {\n  compatible = \"vendor,y\", \"vendor,x\";\n};",
     "dev {\n  compatible = vendor,x\";\n};"}

\* the property names the classifier is asked about
Keys ==
    {"clocks", "my-ref", "foo", "pinctrl-5", "phandle", "linux,phandle", "vin-supply", "reg"}

\* the window after load_file of a device text; no bindings loaded
\* (ui_mainwindow.py line 70)
InitBindings ==
    /\ pc = "loaded"
    /\ text \in DeviceTexts
    /\ nodes = parse(text)
    /\ indices = _build_index(nodes)
    /\ edits = 0
    /\ tokens = <<>>
    /\ i = 1
    /\ stack = <<1>>
    /\ exported = None
    /\ reexported = None
    /\ bindings_index = None
    /\ query = None

\* os.walk(dir_path) without onerror: a directory that is missing or cannot
\* be read lists no file and raises nothing
Walk(exists, files) == IF exists THEN files ELSE <<>>

\* MainWindow._load_bindings_dir on a chosen directory. load_bindings builds
\* its index from nothing, so a second load reaches no index a first load
\* does not: the model follows the first
_load_bindings_dir ==
    /\ pc = "loaded"
    /\ bindings_index = None
    /\ \E files \in Directories, exists \in BOOLEAN :
          /\ ~exists => files = <<>>
          /\ bindings_index' =
                [tag |-> "index", exists |-> exists, dir |-> files,
                 compat_to_phandle_props |-> load_bindings(Walk(exists, files))]
    /\ query' = None
    /\ UNCHANGED <<pc, parseVars, exportVars, indexVars>>

\* a call of _node_prop_may_reference_phandle(node, key) and what it returns
Classify ==
    /\ pc = "loaded"
    /\ \E n \in TreeNodes, key \in Keys :
          query' = [tag |-> "query", node |-> n, key |-> key,
                    result |-> _node_prop_may_reference_phandle(nodes, bindings_index, n, key)]
    /\ UNCHANGED <<pc, parseVars, exportVars, bindings_index, indexVars>>

NextBindings == _load_bindings_dir \/ Classify

SpecBindings == InitBindings /\ [][NextBindings]_vars


---------------------------------------------------------------------------
(* What an index and a classification are measured against.                *)

Loaded == bindings_index.tag = "index"

Asked == query.tag = "query"

\* the schema declares `items` as a sequence, an entry of which has a
\* `$ref` to a phandle or phandle-array type
ItemsSequenceOfPhandles(schema) ==
    /\ schema.type = "dict"
    /\ YGet(schema, "items").type = "list"
    /\ \E k \in 1..Len(YGet(schema, "items").items) :
          /\ YGet(schema, "items").items[k].type = "dict"
          /\ RefersToPhandle(YGet(YGet(schema, "items").items[k], "$ref"))

\* the schema files of the directory that load_bindings reads as mappings
ReadFiles(files) ==
    {f \in SeqToSet(files) :
        (EndsWith(f.fn, ".yaml") \/ EndsWith(f.fn, ".yml")) /\ f.data.type = "dict"}

\* the set the index holds for compatible c; empty when c is no key
EntryOf(c) ==
    IF HasKey(bindings_index.compat_to_phandle_props, c)
    THEN DictGet(bindings_index.compat_to_phandle_props, c).val
    ELSE {}

(* C8: after load_bindings, for every schema document read whose           *)
(* `compatible` is {const: C} and every property P of it that declares     *)
(* `items` as a sequence with a `$ref` to a phandle type, C is a key of    *)
(* compat_to_phandle_props and P is in its set.                            *)
C8_SequenceItemsIndexed ==
    Loaded =>
        \A f \in ReadFiles(bindings_index.dir) :
        \A c \in {YGet(YGet(f.data, "compatible"), "const")} :
        \A props \in {YGet(f.data, "properties")} :
            (c.type = "str" /\ props.type = "dict") =>
                \A k \in 1..Len(props.items) :
                    ItemsSequenceOfPhandles(props.items[k].v) =>
                        /\ HasKey(bindings_index.compat_to_phandle_props, c.str)
                        /\ props.items[k].k \in EntryOf(c.str)

\* the node asked about has a `compatible` property
HasCompatible == HasKey(nodes[query.node].properties, "compatible")

\* the compatible string of the node asked about: its `compatible` value
\* without the blanks and double quotes around it
CompatibleString ==
    StripChars(Strip(DictGet(nodes[query.node].properties, "compatible").val), {"\""})

C10_IndexDecidesKnownCompatible ==
    (Asked /\ Loaded /\ HasCompatible
        /\ HasKey(bindings_index.compat_to_phandle_props, CompatibleString)) =>
        (query.result <=>
            \/ query.key \in EntryOf(CompatibleString)
            \/ /\ StartsWith(query.key, "pinctrl-")
               /\ "pinctrl-" \in EntryOf(CompatibleString))


---------------------------------------------------------------------------
(* ui_mainwindow.py: users_of a node, and the edits of the tree.           *)

\* DTNode.find_by_path over the listed nodes in turn: Some(node) or None
RECURSIVE FindIn(_, _, _)
FindIn(ns, ids, path) ==
    IF ids = <<>> THEN None
    ELSE IF ns[Head(ids)].path = path THEN Some(Head(ids))
    ELSE LET found == FindIn(ns, ns[Head(ids)].children, path)
         IN  IF found.tag = "some" THEN found ELSE FindIn(ns, Tail(ids), path)

find_by_path(ns, n, path) == FindIn(ns, <<n>>, path)

\* re.findall(r"&([A-Za-z_][A-Za-z0-9_]*)", s)
RECURSIVE LabelNames(_)
LabelNames(s) ==
    LET a == Find(s, "&", 1)
    IN  IF a = 0 THEN <<>>
        ELSE IF Ch(s, a + 1) \in Lower \cup Upper \cup {"_"}
        THEN LET e == SpanEnd(s, a + 1, Lower \cup Upper \cup Digit \cup {"_"})
             IN  <<Slice(s, a + 1, e)>> \o LabelNames(Slice(s, e + 1, Len(s)))
        ELSE LabelNames(Slice(s, a + 1, Len(s)))

\* the loop of _extract_label_refs over the labels found
RECURSIVE LabelPhandles(_, _, _)
LabelPhandles(ns, symbols_map, labels) ==
    IF labels = <<>> THEN <<>>
    ELSE LET path == DictGet(symbols_map, Head(labels))
             node == IF path.tag = "some" /\ path.val # ""
                     THEN find_by_path(ns, 1, path.val) ELSE None
             ph   == IF node.tag = "some"
                     THEN MainWindow_parse_single_cell(
                              DictGet(ns[node.val].properties, "phandle"))
                     ELSE None
         IN  (IF ph.tag = "some" THEN <<ph.val>> ELSE <<>>)
             \o LabelPhandles(ns, symbols_map, Tail(labels))

\* val is a property value (a string)
_extract_label_refs(ns, symbols_map, val) ==
    IF val = "" THEN <<>> ELSE LabelPhandles(ns, symbols_map, LabelNames(val))

_extract_phandle_refs(ns, symbols_map, val) ==
    Dedup(MainWindow_parse_cells(Some(val)) \o _extract_label_refs(ns, symbols_map, val),
          <<>>)

\* the loop of _nodes_using over the properties of node n (lines 407-413)
UsesPhandle(ns, idx, bindings, n, t_ph) ==
    \E k \in 1..Len(ns[n].properties) :
        /\ _node_prop_may_reference_phandle(ns, bindings, n, ns[n].properties[k].k)
        /\ t_ph \in SeqToSet(_extract_phandle_refs(ns, idx.symbols_map,
                                                    ns[n].properties[k].v))

UsersIncludingTarget(ns, idx, bindings, target) ==
    LET t_ph == MainWindow_parse_single_cell(DictGet(ns[target].properties, "phandle"))
    IN  IF t_ph.tag = "none" THEN <<>>
        ELSE SelectSeq(idx.all_nodes,
                       LAMBDA n : UsesPhandle(ns, idx, bindings, n, t_ph.val))

\* MainWindow._nodes_using(target) with the indices idx and the bindings held
_nodes_using(ns, idx, bindings, target) ==
    LET t_ph == MainWindow_parse_single_cell(DictGet(ns[target].properties, "phandle"))
    IN  IF t_ph.tag = "none" THEN <<>>
        ELSE SelectSeq(idx.all_nodes,
                       LAMBDA n : n # target
                                  /\ UsesPhandle(ns, idx, bindings, n, t_ph.val))

UpdateOwnPath(ns, n) ==
    IF ns[n].parent = 0 THEN ns
    ELSE [ns EXCEPT ![n].path =
             IF ns[ns[n].parent].path # "/"
             THEN RStripChars(ns[ns[n].parent].path, {"/"}) \o "/" \o ns[n].name
             ELSE "/" \o ns[n].name]

\* update_paths of _rename_node on each listed node in turn
RECURSIVE UpdatePaths(_, _)
UpdatePaths(ns, ids) ==
    IF ids = <<>> THEN ns
    ELSE LET n  == Head(ids)
             pp == IF ns[n].parent = 0 THEN "" ELSE ns[ns[n].parent].path
             m  == IF ns[n].parent = 0 THEN ns
                   ELSE [ns EXCEPT ![n].path =
                            IF pp # "/" THEN RStripChars(pp, {"/"}) \o "/" \o ns[n].name
                            ELSE "/" \o ns[n].name]
         IN  UpdatePaths(UpdatePaths(m, m[n].children), Tail(ids))

update_paths(ns, n) == UpdatePaths(ns, <<n>>)


---------------------------------------------------------------------------
(* Editing a loaded tree and asking for the users of a node.               *)

\* source texts: the provider and consumer of tests/test_exporter.py, a
\* reference by label through __symbols__, nested nodes with literals that
\* have a leading zero, and two nodes sharing a phandle
TreeTexts ==
    {"/ {\n  provider: clk@0 {\n    phandle = <0x10>;\n  };\n  consumer@1 {\n    clocks = <0x10 0>;\n  };\n};",
     "clk@0 {\n  phandle = <0x10>;\n};\nuser {\n  clocks = <&clk 1>;\n};\n__symbols__ {\n  clk = \"/clk@0\";\n};",
     "soc {\n  bus {\n    phandle = <010>;\n    dev {\n      gpios = <8 1>, <010 0>;\n    };\n  };\n};",
     "a {\n  phandle = <1>;\n};\nb {\n  reg = <1>;\n  vin-supply = <2 1>;\n  phandle = <1>;\n};\nc {\n  clocks = <1>;\n};"}

\* the names typed into the rename dialog
NewNames == {"x", "b@2"}

\* the texts typed into a cell of the properties table
CellTexts == {"", "clocks"}

\* the keys of the model in the order sorted() puts them
KeyOrder == <<"clk", "clocks", "gpios", "phandle", "reg", "vin-supply">>

\* sorted(props.items()): the rows _show_properties fills the table with
TableRows(props) ==
    LET ks == SelectSeq(KeyOrder, LAMBDA k : HasKey(props, k))
    IN  [j \in 1..Len(ks) |-> [k |-> ks[j], v |-> DictGet(props, ks[j]).val]]

\* new_props of _on_prop_changed: the rows with a key, one after another
RECURSIVE PropsOfRows(_, _)
PropsOfRows(rows, acc) ==
    IF rows = <<>> THEN acc
    ELSE PropsOfRows(Tail(rows),
                     IF Head(rows).k # "" THEN DictSet(acc, Head(rows).k, Head(rows).v)
                     ELSE acc)

\* the nodes the tree view leads to: find_by_path of the path of an item
Selectable ==
    {n \in TreeNodes : find_by_path(nodes, 1, nodes[n].path) = Some(n)}

InitEdit ==
    /\ pc = "init"
    /\ text = ""
    /\ InitCommon

load_tree == LoadFrom(TreeTexts)

\* MainWindow._rename_node with a name typed and accepted
_rename_node ==
    /\ pc = "loaded"
    /\ edits < MaxEdits
    /\ \E node \in Selectable, new_name \in NewNames :
          nodes' = update_paths([nodes EXCEPT ![node].name = new_name], node)
    /\ edits' = edits + 1
    /\ query' = None
    /\ UNCHANGED <<pc, text, tokens, i, stack, exportVars, bindings_index, indices>>

\* MainWindow._delete_node of a node that has a parent
_delete_node ==
    /\ pc = "loaded"
    /\ edits < MaxEdits
    /\ \E node \in Selectable :
          /\ nodes[node].parent # 0
          /\ nodes' = [nodes EXCEPT ![nodes[node].parent].children =
                          SelectSeq(@, LAMBDA c : c # node)]
    /\ edits' = edits + 1
    /\ query' = None
    /\ UNCHANGED <<pc, text, tokens, i, stack, exportVars, bindings_index, indices>>

\* MainWindow._on_prop_changed after a cell of the table of the selected
\* node was given a new text
_on_prop_changed ==
    /\ pc = "loaded"
    /\ edits < MaxEdits
    /\ \E node \in Selectable :
       \E rows \in {TableRows(nodes[node].properties)} :
       \E r \in 1..Len(rows), column \in {"k", "v"}, t \in CellTexts :
          nodes' = [nodes EXCEPT ![node].properties =
                       PropsOfRows([rows EXCEPT ![r][column] = t], <<>>)]
    /\ edits' = edits + 1
    /\ query' = None
    /\ UNCHANGED <<pc, text, tokens, i, stack, exportVars, bindings_index, indices>>

\* MainWindow._show_users: _nodes_using of the selected node
_show_users ==
    /\ pc = "loaded"
    /\ \E node \in Selectable :
          query' = [tag |-> "users", target |-> node,
                    users |-> _nodes_using(nodes, indices, bindings_index, node)]
    /\ UNCHANGED <<pc, parseVars, exportVars, bindings_index, indexVars>>

NextEdit ==
    load_tree \/ _rename_node \/ _delete_node \/ _on_prop_changed \/ _show_users

SpecEdit == InitEdit /\ [][NextEdit]_vars


---------------------------------------------------------------------------
(* Claims about users_of and about the edits of the tree.                  *)

UsersAsked == pc = "loaded" /\ query.tag = "users"

\* the place of x in the sequence seq that lists it
PlaceIn(seq, x) == CHOOSE k \in 1..Len(seq) : seq[k] = x

\* the phandles the labels of val lead to through the symbols table
LabelRefSet(ns, symbols_map, val) ==
    {PhandleOf(ns, find_by_path(ns, 1, DictGet(symbols_map, lbl).val).val).val :
       lbl \in {l \in SeqToSet(LabelNames(val)) :
                  /\ HasKey(symbols_map, l)
                  /\ find_by_path(ns, 1, DictGet(symbols_map, l).val).tag = "some"
                  /\ PhandleOf(ns, find_by_path(ns, 1, DictGet(symbols_map, l).val).val).tag
                        = "some"}}

\* the reference set of a value: the integer cells of its groups and the
\* phandles of its labels
RefSet(ns, symbols_map, val) ==
    SeqToSet(IntsOf(CellTokens(val))) \cup LabelRefSet(ns, symbols_map, val)

\* the indexed nodes other than target with an accepted property whose
\* reference set holds ph
UsersOf(ns, idx, bindings, target, ph) ==
    {n \in SeqToSet(idx.all_nodes) :
       /\ n # target
       /\ \E k \in 1..Len(ns[n].properties) :
             /\ _node_prop_may_reference_phandle(ns, bindings, n, ns[n].properties[k].k)
             /\ ph \in RefSet(ns, idx.symbols_map, ns[n].properties[k].v)}

\* C11: users_of returns the empty list when the target has no parseable
\* phandle; otherwise it returns exactly the indexed nodes other than the
\* target that have an accepted property whose reference set holds the
\* phandle of the target, each of them once and in pre-order.
C11_UsersOfExact ==
    UsersAsked =>
        \E ph \in {PhandleOf(nodes, query.target)} :
        \E tree \in {collect(nodes, 1)} :
           IF ph.tag = "none" THEN query.users = <<>>
           ELSE /\ SeqToSet(query.users)
                     = UsersOf(nodes, indices, bindings_index, query.target, ph.val)
                /\ \A j, k \in 1..Len(query.users) :
                      j < k =>
                        /\ query.users[j] # query.users[k]
                        /\ PlaceIn(indices.all_nodes, query.users[j])
                             < PlaceIn(indices.all_nodes, query.users[k])
                        /\ ({query.users[j], query.users[k]} \subseteq SeqToSet(tree)
                              => PlaceIn(tree, query.users[j]) < PlaceIn(tree, query.users[k]))

\* the provider of the example was asked for and the consumer was returned,
\* and a node that refers to its own phandle was asked for
C11_Witness ==
    /\ UsersAsked
    /\ edits = 0
    /\ nodes[query.target].name = "clk@0"
    /\ nodes[query.target].parent = 1
    /\ Len(query.users) = 1
    /\ nodes[query.users[1]].name = "consumer@1"

\* C12: a users_of query asked after any loads and edits is answered from
\* indices rebuilt since the last edit: the node list scanned is the
\* pre-order of the nodes now reachable from the root, the phandle and
\* symbols maps are what _build_index computes on the current tree, and no
\* node outside the tree is returned.
C12_UsersAnsweredFromRebuiltIndex ==
    UsersAsked =>
        /\ indices.all_nodes = collect(nodes, 1)
        /\ indices = _build_index(nodes)
        /\ SeqToSet(query.users) \subseteq SeqToSet(collect(nodes, 1))

\* the nodes that list n among their children
ParentsOf(n) == {q \in TreeNodes : n \in SeqToSet(nodes[q].children)}

\* C14: every node of the tree other than the root has exactly one parent,
\* is listed once in the children of that parent, and has the path of the
\* parent joined with "/" and its own name ("/" and the name under the
\* root), after parse and after any renames and deletions; a rename
\* recomputes the path of the node and of each of its descendants.
C14_PathInvariant ==
    \A n \in TreeNodes \ {1} :
        /\ ParentsOf(n) = {nodes[n].parent}
        /\ Len(SelectSeq(nodes[nodes[n].parent].children, LAMBDA c : c = n)) = 1
        /\ nodes[n].path =
              IF nodes[n].parent = 1 THEN "/" \o nodes[n].name
              ELSE nodes[nodes[n].parent].path \o "/" \o nodes[n].name

\* a node below the root that has a child of its own was renamed
C14_Witness ==
    /\ pc = "loaded"
    /\ edits > 0
    /\ \E n \in TreeNodes \ {1} :
          /\ nodes[n].name \in NewNames
          /\ nodes[n].parent # 1
          /\ nodes[n].children # <<>>
          /\ nodes[n].children[1] \in TreeNodes

---------------------------------------------------------------------------
(* Claims about load_bindings, integer literals, statements and export.    *)

\* C13: load_bindings fails with an error reported to the caller when the
\* directory does not exist or cannot be read: no index is ever held that
\* was returned for such a directory.
C13_MissingDirectoryIsAnError ==
    Loaded => bindings_index.exists

\* a cell token read by the C rule: 0x or 0X and hexadecimal digits, else 0
\* and at least one more octal digit, else decimal digits
CLiteral(t) ==
    IF StartsWith(t, "0x") \/ StartsWith(t, "0X")
    THEN IF Len(t) > 2 /\ \A k \in 3..Len(t) : Ch(t, k) \in DigitsOf(16)
         THEN Some(DigitsValue(Slice(t, 3, Len(t)), 16, 0)) ELSE None
    ELSE IF StartsWith(t, "0") /\ Len(t) >= 2
    THEN IF \A k \in 2..Len(t) : Ch(t, k) \in DigitsOf(8)
         THEN Some(DigitsValue(Slice(t, 2, Len(t)), 8, 0)) ELSE None
    ELSE IF t # "" /\ \A k \in 1..Len(t) : Ch(t, k) \in DigitsOf(10)
         THEN Some(DigitsValue(t, 10, 0)) ELSE None

\* the nodes whose first phandle cell is ph when read by the C rule
OwnersByCRule(ph) ==
    {m \in TreeNodes :
       /\ HasKey(nodes[m].properties, "phandle")
       /\ CellTokens(DictGet(nodes[m].properties, "phandle").val) # <<>>
       /\ CLiteral(CellTokens(DictGet(nodes[m].properties, "phandle").val)[1]) = Some(ph)}

\* C15: the cell tokens of the tree are read as integers by the C rule
\* (0x hexadecimal, a leading 0 with more digits octal, else decimal), and
\* the index takes as phandle of a node exactly the literal the rule reads.
C15_CellTokensReadByCRule ==
    (pc = "loaded" /\ edits = 0) =>
        /\ \A n \in TreeNodes : \A k \in 1..Len(nodes[n].properties) :
              \A t \in SeqToSet(CellTokens(nodes[n].properties[k].v)) :
                 ParseInt(t) = CLiteral(t)
        /\ \A ph \in 0..16 :
              HasKey(indices.phandle_map, ph) <=> OwnersByCRule(ph) # {}

---------------------------------------------------------------------------
(* Parsing a text and the same text with one more line break.              *)

\* statements, each on a line of its own; a text is up to MaxStatements
WrapStatements ==
    {"a {", "b@1 {", "};", "k = <1 2>;", "s = \"x\";", "s = \"a\", <1>, \"b\";"}

WrapTexts == {Join("\n", ls) : ls \in SeqsUpTo(WrapStatements, MaxStatements)}

\* the text t with the whitespace at k replaced by a line break
BreakAt(t, k) == Slice(t, 1, k - 1) \o "\n" \o Slice(t, k + 1, Len(t))

\* the text t with a line break put in after position k
BreakAfter(t, k) == Slice(t, 1, k) \o "\n" \o Slice(t, k + 1, Len(t))

\* the texts that differ from t by one line break: at a space inside a
\* statement (between a node name and its brace too) or between the } and
\* the ; of a closer
Rewrapped(t) ==
    {BreakAt(t, k) : k \in {j \in 1..Len(t) : Ch(t, j) = " "}}
      \cup {BreakAfter(t, k) :
              k \in {j \in 1..(Len(t) - 1) : Ch(t, j) = "}" /\ Ch(t, j + 1) = ";"}}

InitWrap ==
    /\ pc = "init"
    /\ text = ""
    /\ InitCommon

load_text == LoadFrom(WrapTexts)

\* DTSParser.parse of the text held, wrapped differently
parse_rewrapped ==
    /\ pc = "loaded"
    /\ \E w \in Rewrapped(text) :
          query' = [tag |-> "wrapped", text |-> w, nodes |-> parse(w)]
    /\ UNCHANGED <<pc, parseVars, exportVars, bindings_index, indexVars>>

NextWrap == load_text \/ parse_rewrapped

SpecWrap == InitWrap /\ [][NextWrap]_vars

\* C16: the parser is indifferent to line wrapping: a text with one more
\* line break, at a space inside a statement, between a node name and its
\* brace or between the } and the ; of a closer, parses to the same tree.
C16_WrapIndifferent ==
    query.tag = "wrapped" => query.nodes = nodes

\* a single simple quoted string: quotes at both ends and none between
SimpleQuoted(v) ==
    /\ Len(v) >= 2
    /\ StartsWith(v, "\"")
    /\ EndsWith(v, "\"")
    /\ ~Contains(Slice(v, 2, Len(v) - 1), "\"")

\* the value a statement is to store: trimmed, and without its quotes only
\* when it is a single simple quoted string
VerbatimValue(raw) ==
    IF SimpleQuoted(Strip(raw)) THEN Slice(Strip(raw), 2, Len(Strip(raw)) - 1)
    ELSE Strip(raw)

\* the property statements of the text held, as <<matched, key, value>>
PropertyStatements ==
    SelectSeq([k \in 1..Len(SplitLines(text)) |-> property_re(SplitLines(text)[k])],
              LAMBDA m : m[1])

\* C17: a statement `key = value;` stores the trimmed value under key,
\* without its quotes only when the value is a single simple quoted string
\* and verbatim otherwise; a key declared again keeps its place and takes
\* the new value.
C17_PropertyStoredVerbatim ==
    (pc = "loaded" /\ query = None) =>
        /\ \A n \in TreeNodes : \A j \in 1..Len(nodes[n].properties) :
              /\ \E m \in SeqToSet(PropertyStatements) :
                    /\ m[2] = nodes[n].properties[j].k
                    /\ VerbatimValue(m[3]) = nodes[n].properties[j].v
              /\ \A j2 \in 1..Len(nodes[n].properties) :
                    nodes[n].properties[j2].k = nodes[n].properties[j].k => j2 = j
        /\ TreeNodes = {1} =>
              /\ Len(nodes[1].properties) = Cardinality({m[2] : m \in SeqToSet(PropertyStatements)})
              /\ \A j \in 1..Len(nodes[1].properties) :
                    /\ nodes[1].properties[j].v
                          = VerbatimValue(PropertyStatements[Len(PropertyStatements)][3])
                       \/ nodes[1].properties[j].k
                          # PropertyStatements[Len(PropertyStatements)][2]
                    /\ j > 1 => \E a, b \in 1..Len(PropertyStatements) :
                                   /\ a < b
                                   /\ PropertyStatements[a][2] = nodes[1].properties[j - 1].k
                                   /\ PropertyStatements[b][2] = nodes[1].properties[j].k
                                   /\ \A c \in 1..(b - 1) :
                                         PropertyStatements[c][2] # nodes[1].properties[j].k

\* the label owed to a node called name with phandle ph: the name without
\* its unit address, other characters replaced by "_", a "_" in front when
\* that is empty or starts with neither a letter nor "_", then "_" and the
\* phandle in hexadecimal
OwedLabel(name, ph) ==
    LET first == IF Contains(name, "@") THEN Slice(name, 1, IndexOf(name, "@") - 1)
                 ELSE name
        s     == SubNonLabelChars(first)
    IN  (IF s = "" \/ Ch(s, 1) \notin Lower \cup Upper \cup {"_"} THEN "_" \o s ELSE s)
          \o "_" \o FormatHex(ph)

\* the nodes of the exported subtree that own a phandle
ExportedOwners ==
    {n \in SeqToSet(subtree_nodes(nodes, exported.root)) : PhandleOf(nodes, n).tag = "some"}

\* C18: in an export every node of the subtree that owns a phandle is given
\* a label, also when another node of the subtree has the same phandle, and
\* is emitted with the label in front of its name; the label is the
\* sanitized name, "_" and the phandle in hexadecimal.
C18_EveryOwnerLabelled ==
    Exported =>
        \A n \in ExportedOwners :
            /\ HasKey(exported.labels, n)
            /\ DictGet(exported.labels, n).val
                  = OwedLabel(nodes[n].name, PhandleOf(nodes, n).val)
            /\ \E k \in 1..Len(exported.lines) :
                  Strip(exported.lines[k])
                     = DictGet(exported.labels, n).val \o ": " \o nodes[n].name \o " {"

\* the content of a cell group with the tokens that match replaced and every
\* other character, whitespace too, left as it is
RECURSIVE ReplKeepingSpace(_, _, _, _)
ReplKeepingSpace(content, tok, ph_to_node, labels) ==
    LET done == IF tok = "" THEN "" ELSE ReplToken(tok, ph_to_node, labels)
    IN  IF content = "" THEN done
        ELSE IF Ch(content, 1) \in Ws
        THEN done \o Ch(content, 1)
               \o ReplKeepingSpace(Slice(content, 2, Len(content)), "", ph_to_node, labels)
        ELSE ReplKeepingSpace(Slice(content, 2, Len(content)), tok \o Ch(content, 1),
                              ph_to_node, labels)

\* a value with the matching tokens of its groups replaced and nothing else
RECURSIVE ValueKeepingSpace(_, _, _)
ValueKeepingSpace(s, ph_to_node, labels) ==
    IF ~Contains(s, "<") THEN s
    ELSE LET lt   == IndexOf(s, "<")
             rest == Slice(s, lt + 1, Len(s))
         IN  IF ~Contains(rest, ">") THEN s
             ELSE LET gt == IndexOf(rest, ">")
                  IN  Slice(s, 1, lt)
                      \o ReplKeepingSpace(Slice(rest, 1, gt - 1), "", ph_to_node, labels)
                      \o ">"
                      \o ValueKeepingSpace(Slice(rest, gt + 1, Len(rest)), ph_to_node, labels)

\* C19: an export emits a value in which no token matches a phandle of the
\* subtree exactly as it is stored, spacing inside its groups included, and
\* changes nothing but the matching tokens in a value it rewrites.
C19_UntouchedBytesKept ==
    Exported =>
        \A n \in SeqToSet(subtree_nodes(nodes, exported.root)) :
        \A j \in 1..Len(nodes[n].properties) :
            nodes[n].properties[j].k # "phandle" =>
                \E k \in 1..Len(exported.lines) :
                    Strip(exported.lines[k])
                       = nodes[n].properties[j].k \o " = "
                           \o ValueKeepingSpace(nodes[n].properties[j].v,
                                                exported.ph_to_node, exported.labels)
                           \o ";"

\* C20: the classifier answers false for `phandle` and `linux,phandle`, for
\* every node and whatever index is loaded, also when the entry of the
\* node's compatible lists the name.
C20_PhandleNeverAReference ==
    (Asked /\ query.key \in {"phandle", "linux,phandle"}) => ~query.result

---------------------------------------------------------------------------
(* Claims about the union of load_bindings, the stack of the parser and    *)
(* the rewrite of the exporter.                                            *)

\* the compatible strings document f declares
DeclaredBy(f) == SeqToSet(_extract_compatibles(YGet(f.data, "compatible")))

\* the documents of the directory that contribute to the entry of c: read
\* as mappings, declaring c, with at least one phandle-bearing property
Contributors(c) ==
    {f \in ReadFiles(bindings_index.dir) :
        c \in DeclaredBy(f) /\ _extract_phandle_props(f.data) # {}}

\* the keys of compat_to_phandle_props
IndexedCompatibles ==
    {bindings_index.compat_to_phandle_props[k].k :
        k \in 1..Len(bindings_index.compat_to_phandle_props)}

---------------------------------------------------------------------------
(* Parsing texts whose openers and closers are balanced.                   *)

\* a node opener, the root scope opener and the closer
NestStatements == {"a {", "/ {", "};"}

\* the openers less the closers of the statements
RECURSIVE OpenCount(_)
OpenCount(ls) ==
    IF ls = <<>> THEN 0
    ELSE OpenCount(SubSeq(ls, 1, Len(ls) - 1))
           + (IF EndsWith(ls[Len(ls)], "{") THEN 1
              ELSE IF ls[Len(ls)] = "};" THEN -1 ELSE 0)

\* no closer without an open block, and no block left open
Balanced(ls) ==
    /\ OpenCount(ls) = 0
    /\ \A k \in 1..Len(ls) : OpenCount(SubSeq(ls, 1, k)) >= 0

BalancedTexts ==
    {Join("\n", ls) : ls \in {x \in SeqsUpTo(NestStatements, MaxNest) : Balanced(x)}}

InitNest ==
    /\ pc = "start"
    /\ text \in BalancedTexts
    /\ InitCommon

SpecNest == InitNest /\ [][Next]_vars

\* the blocks open after the statements, innermost last, each the node it
\* opened or 0 for a root scope opener, and the parent owed to each node
\* made: the node of the innermost open block that made one, else the root
RECURSIVE OpenBlocks(_)
OpenBlocks(ls) ==
    IF ls = <<>> THEN [blocks |-> <<>>, parents |-> <<>>]
    ELSE LET before == OpenBlocks(SubSeq(ls, 1, Len(ls) - 1))
             line   == Strip(ls[Len(ls)])
             made   == SelectSeq(before.blocks, LAMBDA b : b # 0)
         IN  IF EndsWith(line, "{") /\ StartsWith(line, "/")
             THEN [before EXCEPT !.blocks = Append(@, 0)]
             ELSE IF EndsWith(line, "{")
             THEN [blocks  |-> Append(before.blocks, Len(before.parents) + 2),
                   parents |-> Append(before.parents,
                                      IF made = <<>> THEN 1 ELSE made[Len(made)])]
             ELSE IF line = "};" /\ before.blocks # <<>>
             THEN [before EXCEPT !.blocks = SubSeq(@, 1, Len(@) - 1)]
             ELSE before

\* C22: for a text whose openers and closers are balanced, after each
\* statement the stack holds the root and the nodes of the open blocks, each
\* node is a child of the node whose block encloses it, and the stack is the
\* root alone at the end, also when a root scope opener stands inside the
\* block of a node.
C22_StackFollowsOpenBlocks ==
    pc \in {"parse", "done"} =>
        \E ref \in {OpenBlocks(SubSeq(tokens, 1, i - 1))} :
           /\ stack = <<1>> \o SelectSeq(ref.blocks, LAMBDA b : b # 0)
           /\ Len(nodes) = Len(ref.parents) + 1
           /\ \A n \in 2..Len(nodes) :
                 /\ nodes[n].parent = ref.parents[n - 1]
                 /\ n \in SeqToSet(nodes[ref.parents[n - 1]].children)
           /\ pc = "done" => stack = <<1>>

\* C23: export_dtsi rewrites the cell groups of every property it emits and
\* asks no classifier: a cell of a property that cannot hold references,
\* such as `reg`, is printed as "&" and a label whenever its value is the
\* phandle of a node of the exported subtree.
C23_RewriteIgnoresClassifier ==
    Exported =>
        \A inside \in {SeqToSet(collect(nodes, exported.root))} :
        \A owned \in {OwnedPhandles(nodes, inside)} :
        \A props \in {PropsOf(nodes, collect(nodes, exported.root))} :
        \A outs \in {SelectSeq(exported.lines, IsPropertyLine)} :
            \A j \in 1..Len(props) :
                ~_prop_may_reference_phandle(props[j].k) =>
                    \A t \in 1..Len(CellTokens(props[j].v)) :
                        IsInt(CellTokens(props[j].v)[t], owned) =>
                            /\ StartsWith(Strip(outs[j]), props[j].k \o " = ")
                            /\ StartsWith(CellTokens(outs[j])[t], "&")
                            /\ \E m \in inside :
                                  /\ PhandleOf(nodes, m) = ParseInt(CellTokens(props[j].v)[t])
                                  /\ HasKey(exported.labels, m)
                                  /\ CellTokens(outs[j])[t]
                                        = "&" \o DictGet(exported.labels, m).val

\* an export that emits a `reg` with a cell equal to the phandle of a node
\* of the exported subtree
C23_Witness ==
    /\ Exported
    /\ bindings_index = None
    /\ \E n \in SeqToSet(collect(nodes, exported.root)) :
          /\ HasKey(nodes[n].properties, "reg")
          /\ \E t \in SeqToSet(CellTokens(DictGet(nodes[n].properties, "reg").val)) :
                IsInt(t, OwnedPhandles(nodes, SeqToSet(collect(nodes, exported.root))))
    /\ \E k \in 1..Len(exported.lines) :
          StartsWith(Strip(exported.lines[k]), "reg = <&")

=============================================================================
